---- MODULE Spec2Model ----
(***************************************************************************)
(* A model of package gaelog: identity resolution from the environment and *)
(* the metadata service, construction of a request Logger, the Logger's    *)
(* logging and Close methods, and the Wrap/WrapWithID request adapter with *)
(* its package-level logging functions.                                    *)
(*                                                                         *)
(* Go strings are sequences of one-character strings, so that              *)
(* strings.Split and fmt.Sprintf are computed and not assumed.             *)
(***************************************************************************)
EXTENDS Naturals, Sequences, FiniteSets, TLC

VARIABLES
    env,                    \* the process environment: variable name -> value
    metadataOnce,           \* sync.Once guarding the metadata lookup
    metadataProjectID,      \* memoized project ID
    metadataProjectIDErr,   \* memoized lookup error
    networkCalls,           \* calls of metadata.ProjectID() made so far
    req,                    \* the requests and the flow serving each
    clients,                \* the backend client made for each request
    stdlog                  \* lines each request wrote to the standard logger

vars == <<env, metadataOnce, metadataProjectID, metadataProjectIDErr,
          networkCalls, req, clients, stdlog>>

----------------------------------------------------------------------------
(* Bounds *)

MaxReq == 2
MaxHeaderLen == 3
MaxCalls == 2
MaxCloses == 2

Requests == 1..MaxReq

----------------------------------------------------------------------------
(* Strings *)

Str_projects == <<"p", "r", "o", "j", "e", "c", "t", "s", "/">>
Str_traces == <<"/", "t", "r", "a", "c", "e", "s", "/">>

RECURSIVE SeqsUpTo(_, _)
SeqsUpTo(alphabet, n) ==
    IF n = 0 THEN {<<>>}
    ELSE LET shorter == SeqsUpTo(alphabet, n - 1)
         IN  shorter \cup {Append(s, c) : s \in shorter, c \in alphabet}

\* A split that keeps what precedes the last "/".
RECURSIVE SplitFirst_AtLastSlash(_)
SplitFirst_AtLastSlash(s) ==
    IF \A i \in 1..Len(s) : s[i] # "/" THEN s
    ELSE IF s[Len(s)] = "/" THEN SubSeq(s, 1, Len(s) - 1)
    ELSE SplitFirst_AtLastSlash(SubSeq(s, 1, Len(s) - 1))

\* strings.Split(s, "/")[0]: the part of s before its first "/", or all of s.
RECURSIVE SplitFirst(_)
SplitFirst(s) ==
    IF s = <<>> THEN <<>>
    ELSE IF Head(s) = "/" THEN <<>>
    ELSE <<Head(s)>> \o SplitFirst(Tail(s))

\* fmt.Sprintf(format, v...): every "%v" or "%s" verb of the format is replaced by the
\* next operand; a verb with no operand left prints "%!v(MISSING)".
Str_missing == <<"%", "!", "v", "(", "M", "I", "S", "S", "I", "N", "G", ")">>

IsVerb(c) == c \in {"%v", "%s"}

RECURSIVE Sprintf(_, _)
Sprintf(format, v) ==
    IF format = <<>> THEN <<>>
    ELSE IF IsVerb(Head(format))
         THEN IF v = <<>>
              THEN Str_missing \o Sprintf(Tail(format), v)
              ELSE Head(v) \o Sprintf(Tail(format), Tail(v))
         ELSE <<Head(format)>> \o Sprintf(Tail(format), v)

----------------------------------------------------------------------------
(* Constants of the package *)

DefaultLogID == "app_log"
GAEAppResourceType == "gae_app"
CloudRunResourceType == "cloud_run_revision"
traceContextHeaderName == "X-Cloud-Trace-Context"

EnvVars == {"GOOGLE_CLOUD_PROJECT", "GAE_SERVICE", "GAE_VERSION",
            "K_SERVICE", "K_REVISION", "K_CONFIGURATION"}

\* The value a variable has when it is set to something.
SetValue(k) ==
    CASE k = "GOOGLE_CLOUD_PROJECT" -> <<"m", "y", "-", "p">>
      [] k = "GAE_SERVICE"          -> <<"s", "v", "c">>
      [] k = "GAE_VERSION"          -> <<"v", "1">>
      [] k = "K_SERVICE"            -> <<"k", "s">>
      [] k = "K_REVISION"           -> <<"k", "r">>
      [] k = "K_CONFIGURATION"      -> <<"k", "c">>

\* A variable is unset, or set to a value.  GOOGLE_CLOUD_PROJECT may also be set to
\* the empty string.
Unset == [set |-> FALSE, val |-> <<>>]
SetTo(v) == [set |-> TRUE, val |-> v]

EnvStates(k) ==
    {Unset, SetTo(SetValue(k))}
        \cup (IF k = "GOOGLE_CLOUD_PROJECT" THEN {SetTo(<<>>)} ELSE {})

Environments ==
    {[k \in EnvVars |-> IF k \in S THEN SetTo(SetValue(k))
                        ELSE IF k \in E THEN SetTo(<<>>) ELSE Unset] :
        S \in SUBSET EnvVars, E \in SUBSET {"GOOGLE_CLOUD_PROJECT"}}

\* os.Getenv: the value of the variable, "" when it is not set.
Getenv(e, k) == IF e[k].set THEN e[k].val ELSE <<>>

\* The project ID the metadata server answers with.
MetadataProject == <<"c", "r", "-", "p">>

----------------------------------------------------------------------------
(* Errors.  An error is its origin and the names its message spells out. *)

NoError == [kind |-> "nil", names |-> {}]

ErrGAEVars ==
    [kind |-> "gae-env",
     names |-> {"GOOGLE_CLOUD_PROJECT", "GAE_SERVICE", "GAE_VERSION"}]

ErrCloudRunVars ==
    [kind |-> "cloud-run-env",
     names |-> {"K_SERVICE", "K_REVISION", "K_CONFIGURATION"}]

ErrNoHeader == [kind |-> "header", names |-> {traceContextHeaderName}]

\* Errors of the collaborators: metadata.ProjectID() and logging.NewClient.
ErrMetadata == [kind |-> "metadata", names |-> {}]
ErrNewClient == [kind |-> "new-client", names |-> {}]
ErrClientClose == [kind |-> "client-close", names |-> {}]

----------------------------------------------------------------------------
(* Identity resolution *)

\* A *monitoredres.MonitoredResource; NilResource is the nil pointer.
NilResource == [type |-> "", labels |-> <<>>]

\* serviceInfo{}
NoServiceInfo == [projectID |-> <<>>, resource |-> NilResource]

traceID(projectID, trace) == Str_projects \o projectID \o Str_traces \o trace

\* A resolver that takes the Cloud Run path whenever K_SERVICE is set.
NeedsMetadata_PrefersCloudRun(e) ==
    Getenv(e, "GOOGLE_CLOUD_PROJECT") = <<>> \/ Getenv(e, "K_SERVICE") # <<>>

\* newServiceInfo takes the App Engine branch (gaeServiceInfo) when
\* GOOGLE_CLOUD_PROJECT does not read "", and else asks the metadata service and
\* takes the Cloud Run branch (cloudRunServiceInfo).
NeedsMetadata(e) == Getenv(e, "GOOGLE_CLOUD_PROJECT") = <<>>

\* What projectIDFromMetadataService returns.
MetadataResult(id, err) == [id |-> id, err |-> err]

\* The App Engine branch with the service and version labels exchanged.
gaeServiceInfo_LabelsSwapped(e) ==
    LET gaeProjectID == Getenv(e, "GOOGLE_CLOUD_PROJECT")
        gaeService == Getenv(e, "GAE_SERVICE")
        gaeVersion == Getenv(e, "GAE_VERSION")
    IN  IF gaeService = <<>> \/ gaeVersion = <<>>
        THEN [info |-> NoServiceInfo, err |-> ErrGAEVars]
        ELSE [info |-> [projectID |-> gaeProjectID,
                        resource |->
                            [type |-> GAEAppResourceType,
                             labels |-> [project_id |-> gaeProjectID,
                                         module_id |-> gaeVersion,
                                         version_id |-> gaeService]]],
              err |-> NoError]

\* newServiceInfo when GOOGLE_CLOUD_PROJECT is not empty: the App Engine variables.
gaeServiceInfo(e) ==
    LET gaeProjectID == Getenv(e, "GOOGLE_CLOUD_PROJECT")
        gaeService == Getenv(e, "GAE_SERVICE")
        gaeVersion == Getenv(e, "GAE_VERSION")
    IN  IF gaeService = <<>> \/ gaeVersion = <<>>
        THEN [info |-> NoServiceInfo, err |-> ErrGAEVars]
        ELSE [info |-> [projectID |-> gaeProjectID,
                        resource |->
                            [type |-> GAEAppResourceType,
                             labels |-> [project_id |-> gaeProjectID,
                                         module_id |-> gaeService,
                                         version_id |-> gaeVersion]]],
              err |-> NoError]

\* The Cloud Run branch requiring K_SERVICE only.
cloudRunServiceInfo_ChecksServiceOnly(e, md) ==
    LET crProjectID == md.id
        crService == Getenv(e, "K_SERVICE")
        crRevision == Getenv(e, "K_REVISION")
        crConfiguration == Getenv(e, "K_CONFIGURATION")
    IN  IF md.err # NoError
        THEN [info |-> NoServiceInfo, err |-> md.err]
        ELSE IF crService = <<>>
        THEN [info |-> NoServiceInfo, err |-> ErrCloudRunVars]
        ELSE [info |-> [projectID |-> crProjectID,
                        resource |->
                            [type |-> CloudRunResourceType,
                             labels |-> [project_id |-> crProjectID,
                                         service_name |-> crService,
                                         revision_name |-> crRevision,
                                         configuration_name |-> crConfiguration]]],
              err |-> NoError]

\* The Cloud Run branch going on to the variables without looking at the error of
\* the lookup.
cloudRunServiceInfo_IgnoresLookupError(e, md) ==
    LET crProjectID == md.id
        crService == Getenv(e, "K_SERVICE")
        crRevision == Getenv(e, "K_REVISION")
        crConfiguration == Getenv(e, "K_CONFIGURATION")
    IN  IF crService = <<>> \/ crRevision = <<>> \/ crConfiguration = <<>>
        THEN [info |-> NoServiceInfo, err |-> ErrCloudRunVars]
        ELSE [info |-> [projectID |-> crProjectID,
                        resource |->
                            [type |-> CloudRunResourceType,
                             labels |-> [project_id |-> crProjectID,
                                         service_name |-> crService,
                                         revision_name |-> crRevision,
                                         configuration_name |-> crConfiguration]]],
              err |-> NoError]

\* newServiceInfo from the return of projectIDFromMetadataService (md) on: the
\* Cloud Run variables, read after the lookup.
cloudRunServiceInfo(e, md) ==
    LET crProjectID == md.id
        crService == Getenv(e, "K_SERVICE")
        crRevision == Getenv(e, "K_REVISION")
        crConfiguration == Getenv(e, "K_CONFIGURATION")
    IN  IF md.err # NoError
        THEN [info |-> NoServiceInfo, err |-> md.err]
        ELSE IF crService = <<>> \/ crRevision = <<>> \/ crConfiguration = <<>>
        THEN [info |-> NoServiceInfo, err |-> ErrCloudRunVars]
        ELSE [info |-> [projectID |-> crProjectID,
                        resource |->
                            [type |-> CloudRunResourceType,
                             labels |-> [project_id |-> crProjectID,
                                         service_name |-> crService,
                                         revision_name |-> crRevision,
                                         configuration_name |-> crConfiguration]]],
              err |-> NoError]

----------------------------------------------------------------------------
(* The Logger *)

\* A *logging.Client is the number of the client (0: nil); a *logging.Logger is
\* the client it came from and its log ID.
NilClient == 0
NilLogger == [client |-> 0, logID |-> ""]

\* &Logger{} made by request r.  A *Logger value carries the request that
\* allocated it (id), which tells two pointers apart; nonnil is FALSE for the
\* nil *Logger.
EmptyLogger(r) ==
    [nonnil |-> TRUE, id |-> r, client |-> NilClient, logger |-> NilLogger,
     monRes |-> NilResource, trace |-> <<>>]

NilLoggerPtr ==
    [nonnil |-> FALSE, id |-> 0, client |-> NilClient, logger |-> NilLogger,
     monRes |-> NilResource, trace |-> <<>>]

\* The parent logging.NewClient is given.
ClientParent(projectID) == Str_projects \o projectID

\* NewWithID looking at the header before the result of newServiceInfo.
NewWithID_HeaderFirst(r, si, traceContext, logID, clientOK) ==
    IF traceContext = <<>>
    THEN [lg |-> EmptyLogger(r), err |-> ErrNoHeader, tried |-> FALSE,
          made |-> FALSE, parent |-> <<>>]
    ELSE IF si.err # NoError
    THEN [lg |-> EmptyLogger(r), err |-> si.err, tried |-> FALSE,
          made |-> FALSE, parent |-> <<>>]
    ELSE IF ~clientOK
    THEN [lg |-> EmptyLogger(r), err |-> ErrNewClient, tried |-> TRUE,
          made |-> FALSE, parent |-> <<>>]
    ELSE [lg |-> [nonnil |-> TRUE, id |-> r, client |-> r,
                  logger |-> [client |-> r, logID |-> logID],
                  monRes |-> si.info.resource,
                  trace |-> traceID(si.info.projectID, SplitFirst(traceContext))],
          err |-> NoError, tried |-> TRUE, made |-> TRUE,
          parent |-> ClientParent(si.info.projectID)]

\* NewWithID taking a header whose part before the first "/" is empty for a
\* header that is not set.
NewWithID_RejectsEmptyTrace(r, si, traceContext, logID, clientOK) ==
    IF si.err # NoError
    THEN [lg |-> EmptyLogger(r), err |-> si.err, tried |-> FALSE,
          made |-> FALSE, parent |-> <<>>]
    ELSE IF SplitFirst(traceContext) = <<>>
    THEN [lg |-> EmptyLogger(r), err |-> ErrNoHeader, tried |-> FALSE,
          made |-> FALSE, parent |-> <<>>]
    ELSE IF ~clientOK
    THEN [lg |-> EmptyLogger(r), err |-> ErrNewClient, tried |-> TRUE,
          made |-> FALSE, parent |-> <<>>]
    ELSE [lg |-> [nonnil |-> TRUE, id |-> r, client |-> r,
                  logger |-> [client |-> r, logID |-> logID],
                  monRes |-> si.info.resource,
                  trace |-> traceID(si.info.projectID, SplitFirst(traceContext))],
          err |-> NoError, tried |-> TRUE, made |-> TRUE,
          parent |-> ClientParent(si.info.projectID)]

\* NewWithID handing every request the client of the first.
NewWithID_SharedClient(r, si, traceContext, logID, clientOK) ==
    IF si.err # NoError
    THEN [lg |-> EmptyLogger(r), err |-> si.err, tried |-> FALSE,
          made |-> FALSE, parent |-> <<>>]
    ELSE IF traceContext = <<>>
    THEN [lg |-> EmptyLogger(r), err |-> ErrNoHeader, tried |-> FALSE,
          made |-> FALSE, parent |-> <<>>]
    ELSE IF ~clientOK
    THEN [lg |-> EmptyLogger(r), err |-> ErrNewClient, tried |-> TRUE,
          made |-> FALSE, parent |-> <<>>]
    ELSE [lg |-> [nonnil |-> TRUE, id |-> r, client |-> 1,
                  logger |-> [client |-> 1, logID |-> logID],
                  monRes |-> si.info.resource,
                  trace |-> traceID(si.info.projectID, SplitFirst(traceContext))],
          err |-> NoError, tried |-> TRUE, made |-> TRUE,
          parent |-> ClientParent(si.info.projectID)]

\* NewWithID making the backend client before it looks at the header.
NewWithID_ClientBeforeHeader(r, si, traceContext, logID, clientOK) ==
    IF si.err # NoError
    THEN [lg |-> EmptyLogger(r), err |-> si.err, tried |-> FALSE,
          made |-> FALSE, parent |-> <<>>]
    ELSE IF ~clientOK
    THEN [lg |-> EmptyLogger(r), err |-> ErrNewClient, tried |-> TRUE,
          made |-> FALSE, parent |-> <<>>]
    ELSE IF traceContext = <<>>
    THEN [lg |-> EmptyLogger(r), err |-> ErrNoHeader, tried |-> TRUE,
          made |-> TRUE, parent |-> ClientParent(si.info.projectID)]
    ELSE [lg |-> [nonnil |-> TRUE, id |-> r, client |-> r,
                  logger |-> [client |-> r, logID |-> logID],
                  monRes |-> si.info.resource,
                  trace |-> traceID(si.info.projectID, SplitFirst(traceContext))],
          err |-> NoError, tried |-> TRUE, made |-> TRUE,
          parent |-> ClientParent(si.info.projectID)]

\* NewWithID, keeping the resolved resource and trace when logging.NewClient fails.
NewWithID_KeepsResource(r, si, traceContext, logID, clientOK) ==
    IF si.err # NoError
    THEN [lg |-> EmptyLogger(r), err |-> si.err, tried |-> FALSE,
          made |-> FALSE, parent |-> <<>>]
    ELSE IF traceContext = <<>>
    THEN [lg |-> EmptyLogger(r), err |-> ErrNoHeader, tried |-> FALSE,
          made |-> FALSE, parent |-> <<>>]
    ELSE [lg |-> [nonnil |-> TRUE, id |-> r,
                  client |-> IF clientOK THEN r ELSE NilClient,
                  logger |-> IF clientOK THEN [client |-> r, logID |-> logID]
                             ELSE NilLogger,
                  monRes |-> si.info.resource,
                  trace |-> traceID(si.info.projectID, SplitFirst(traceContext))],
          err |-> IF clientOK THEN NoError ELSE ErrNewClient,
          tried |-> TRUE, made |-> clientOK,
          parent |-> IF clientOK THEN ClientParent(si.info.projectID) ELSE <<>>]

\* NewWithID for request r with header value traceContext, given newServiceInfo's
\* result and logging.NewClient's outcome: the Logger and error returned,
\* whether logging.NewClient was called (tried) and returned a client (made),
\* and the parent that client was made for.
NewWithID(r, si, traceContext, logID, clientOK) ==
    IF si.err # NoError
    THEN [lg |-> EmptyLogger(r), err |-> si.err, tried |-> FALSE,
          made |-> FALSE, parent |-> <<>>]
    ELSE IF traceContext = <<>>
    THEN [lg |-> EmptyLogger(r), err |-> ErrNoHeader, tried |-> FALSE,
          made |-> FALSE, parent |-> <<>>]
    ELSE IF ~clientOK
    THEN [lg |-> EmptyLogger(r), err |-> ErrNewClient, tried |-> TRUE,
          made |-> FALSE, parent |-> <<>>]
    ELSE [lg |-> [nonnil |-> TRUE, id |-> r, client |-> r,
                  logger |-> [client |-> r, logID |-> logID],
                  monRes |-> si.info.resource,
                  trace |-> traceID(si.info.projectID, SplitFirst(traceContext))],
          err |-> NoError, tried |-> TRUE, made |-> TRUE,
          parent |-> ClientParent(si.info.projectID)]

\* logging.Severity: the eight levels the package wraps.
Severities == {"Debug", "Info", "Notice", "Warning", "Error", "Critical",
               "Alert", "Emergency"}

\* fmt.Sprint(v), as log.Print renders a value: a string as itself, a struct
\* between braces.
Sprint(v) == IF v.kind = "string" THEN v.data ELSE <<"{">> \o v.data \o <<"}">>

\* What a logging call does: panic (a nil receiver), lines for the standard
\* logger, entries for the backend logger.
Effect(p, l, e) == [panic |-> p, lines |-> l, entries |-> e]

Entry(lg, severity, payload) ==
    [client |-> lg.logger.client, logID |-> lg.logger.logID,
     severity |-> severity, payload |-> payload,
     trace |-> lg.trace, resource |-> lg.monRes]

\* Logf that uses the backend logger handle without looking at it.
LoggerLogf_NoFallback(lg, severity, format, v) ==
    IF ~lg.nonnil THEN Effect(TRUE, <<>>, <<>>)
    ELSE Effect(lg.logger = NilLogger, <<>>,
                <<Entry(lg, severity,
                        [kind |-> "string", data |-> Sprintf(format, v)])>>)

\* (*Logger).Logf
LoggerLogf(lg, severity, format, v) ==
    IF ~lg.nonnil THEN Effect(TRUE, <<>>, <<>>)
    ELSE IF lg.logger = NilLogger
    THEN Effect(FALSE, <<Sprintf(format, v)>>, <<>>)
    ELSE Effect(FALSE, <<>>,
                <<Entry(lg, severity,
                        [kind |-> "string", data |-> Sprintf(format, v)])>>)

\* Log that submits the printed form of the value in place of the value.
LoggerLog_PayloadAsText(lg, severity, v) ==
    IF ~lg.nonnil THEN Effect(TRUE, <<>>, <<>>)
    ELSE IF lg.logger = NilLogger
    THEN Effect(FALSE, <<Sprint(v)>>, <<>>)
    ELSE Effect(FALSE, <<>>,
                <<Entry(lg, severity, [kind |-> "string", data |-> Sprint(v)])>>)

\* (*Logger).Log
LoggerLog(lg, severity, v) ==
    IF ~lg.nonnil THEN Effect(TRUE, <<>>, <<>>)
    ELSE IF lg.logger = NilLogger
    THEN Effect(FALSE, <<Sprint(v)>>, <<>>)
    ELSE Effect(FALSE, <<>>, <<Entry(lg, severity, v)>>)

\* The value of a context under ctxKey: absent, or a *Logger.
NoValue == [present |-> FALSE, lg |-> NilLoggerPtr]
WithValue(lg) == [present |-> TRUE, lg |-> lg]

\* Logf that asserts the context's value to be a *Logger without a nil check.
Logf_NoNilCheck(ctx, severity, format, v) ==
    IF ~ctx.present THEN Effect(TRUE, <<>>, <<>>)
    ELSE LoggerLogf(ctx.lg, severity, format, v)

\* Logf of the package: the context's Logger when it has one, else log.Printf.
Logf(ctx, severity, format, v) ==
    IF ~ctx.present THEN Effect(FALSE, <<Sprintf(format, v)>>, <<>>)
    ELSE LoggerLogf(ctx.lg, severity, format, v)

\* Log of the package.
Log(ctx, severity, v) ==
    IF ~ctx.present THEN Effect(FALSE, <<Sprint(v)>>, <<>>)
    ELSE LoggerLog(ctx.lg, severity, v)

\* The eight leveled wrappers of (*Logger).Logf.
LoggerDebugf(lg, format, v) == LoggerLogf(lg, "Debug", format, v)
LoggerInfof(lg, format, v) == LoggerLogf(lg, "Info", format, v)
\* Noticef passing the severity of the wrapper above it.
LoggerNoticef_InfoSeverity(lg, format, v) == LoggerLogf(lg, "Info", format, v)

\* (*Logger).Noticef
LoggerNoticef(lg, format, v) == LoggerLogf(lg, "Notice", format, v)
LoggerWarningf(lg, format, v) == LoggerLogf(lg, "Warning", format, v)
LoggerErrorf(lg, format, v) == LoggerLogf(lg, "Error", format, v)
LoggerCriticalf(lg, format, v) == LoggerLogf(lg, "Critical", format, v)
LoggerAlertf(lg, format, v) == LoggerLogf(lg, "Alert", format, v)
LoggerEmergencyf(lg, format, v) == LoggerLogf(lg, "Emergency", format, v)

\* The eight leveled wrappers of (*Logger).Log.
LoggerDebug(lg, v) == LoggerLog(lg, "Debug", v)
LoggerInfo(lg, v) == LoggerLog(lg, "Info", v)
LoggerNotice(lg, v) == LoggerLog(lg, "Notice", v)
LoggerWarning(lg, v) == LoggerLog(lg, "Warning", v)
LoggerError(lg, v) == LoggerLog(lg, "Error", v)
LoggerCritical(lg, v) == LoggerLog(lg, "Critical", v)
LoggerAlert(lg, v) == LoggerLog(lg, "Alert", v)
LoggerEmergency(lg, v) == LoggerLog(lg, "Emergency", v)

\* The eight leveled wrappers of the package's Logf.
Debugf(ctx, format, v) == Logf(ctx, "Debug", format, v)
Infof(ctx, format, v) == Logf(ctx, "Info", format, v)
Noticef(ctx, format, v) == Logf(ctx, "Notice", format, v)
Warningf(ctx, format, v) == Logf(ctx, "Warning", format, v)
Errorf(ctx, format, v) == Logf(ctx, "Error", format, v)
Criticalf(ctx, format, v) == Logf(ctx, "Critical", format, v)
Alertf(ctx, format, v) == Logf(ctx, "Alert", format, v)
Emergencyf(ctx, format, v) == Logf(ctx, "Emergency", format, v)

\* The eight leveled wrappers of the package's Log.
Debug(ctx, v) == Log(ctx, "Debug", v)
Info(ctx, v) == Log(ctx, "Info", v)
Notice(ctx, v) == Log(ctx, "Notice", v)
Warning(ctx, v) == Log(ctx, "Warning", v)
Error(ctx, v) == Log(ctx, "Error", v)
Critical(ctx, v) == Log(ctx, "Critical", v)
Alert(ctx, v) == Log(ctx, "Alert", v)
Emergency(ctx, v) == Log(ctx, "Emergency", v)

\* A call of the method of lg that is named after level and ends in f.
LoggerLeveledf(level, lg, format, v) ==
    CASE level = "Debug" -> LoggerDebugf(lg, format, v)
      [] level = "Info" -> LoggerInfof(lg, format, v)
      [] level = "Notice" -> LoggerNoticef(lg, format, v)
      [] level = "Warning" -> LoggerWarningf(lg, format, v)
      [] level = "Error" -> LoggerErrorf(lg, format, v)
      [] level = "Critical" -> LoggerCriticalf(lg, format, v)
      [] level = "Alert" -> LoggerAlertf(lg, format, v)
      [] level = "Emergency" -> LoggerEmergencyf(lg, format, v)

\* A call of the method of lg that is named after level.
LoggerLeveled(level, lg, v) ==
    CASE level = "Debug" -> LoggerDebug(lg, v)
      [] level = "Info" -> LoggerInfo(lg, v)
      [] level = "Notice" -> LoggerNotice(lg, v)
      [] level = "Warning" -> LoggerWarning(lg, v)
      [] level = "Error" -> LoggerError(lg, v)
      [] level = "Critical" -> LoggerCritical(lg, v)
      [] level = "Alert" -> LoggerAlert(lg, v)
      [] level = "Emergency" -> LoggerEmergency(lg, v)

\* A call of the package's function that is named after level and ends in f.
Leveledf(level, ctx, format, v) ==
    CASE level = "Debug" -> Debugf(ctx, format, v)
      [] level = "Info" -> Infof(ctx, format, v)
      [] level = "Notice" -> Noticef(ctx, format, v)
      [] level = "Warning" -> Warningf(ctx, format, v)
      [] level = "Error" -> Errorf(ctx, format, v)
      [] level = "Critical" -> Criticalf(ctx, format, v)
      [] level = "Alert" -> Alertf(ctx, format, v)
      [] level = "Emergency" -> Emergencyf(ctx, format, v)

\* A call of the package's function that is named after level.
Leveled(level, ctx, v) ==
    CASE level = "Debug" -> Debug(ctx, v)
      [] level = "Info" -> Info(ctx, v)
      [] level = "Notice" -> Notice(ctx, v)
      [] level = "Warning" -> Warning(ctx, v)
      [] level = "Error" -> Error(ctx, v)
      [] level = "Critical" -> Critical(ctx, v)
      [] level = "Alert" -> Alert(ctx, v)
      [] level = "Emergency" -> Emergency(ctx, v)

\* (*Logger).Close calls the client's Close only when the Logger has a client.
ClosesClient(lg) == lg.client # NilClient

----------------------------------------------------------------------------
(* State *)

\* How a request is served: by a handler from Wrap ("wrap"), by a handler that
\* makes and closes its own Logger with New ("manual"), or by a handler that was
\* not wrapped and calls the package's logging functions ("bare").
Kinds == {"wrap", "manual", "bare"}

HeaderAlphabet == {"t", "/"}
Headers == SeqsUpTo(HeaderAlphabet, MaxHeaderLen)

LogfInputs == {[format |-> <<"h", "i">>, v |-> <<>>],
               [format |-> <<"n", "=", "%v">>, v |-> << <<"7">> >>]}
LogValues == {[kind |-> "string", data |-> <<"h", "i">>],
              [kind |-> "struct", data |-> <<"K", "C">>]}

\* A request and the flow that serves it: where the flow is (pc), the handler
\* (kind), the X-Cloud-Trace-Context value (header), what newServiceInfo
\* returned (si) and what NewWithID returned (lg, err), the value of the
\* handler's context under ctxKey (ctx), whether the flow called
\* projectIDFromMetadataService, whether it waited there for the lookup another
\* flow was running (waited), whether it called logging.NewClient, how often the
\* handler was called (invoked), the logging calls it made (calls) and how many
\* of them with the request's context after the adapter had returned (late), how
\* it ended (exit:
\* "return", "panic", or "fault" for a panic inside a logging call), the calls
\* of Close on the Logger (closes) and the result of the last that the calling
\* code received (closeRet; nil as long as it received none).
IdleRequest ==
    [pc |-> "idle", kind |-> "none", header |-> <<>>,
     si |-> [info |-> NoServiceInfo, err |-> NoError],
     lg |-> NilLoggerPtr, err |-> NoError, ctx |-> NoValue,
     askedMetadata |-> FALSE, waited |-> FALSE, triedClient |-> FALSE,
     invoked |-> 0, calls |-> 0, late |-> 0, exit |-> "none",
     closes |-> 0, closeRet |-> NoError]

\* A sink is seen as the number of records it was given and the last of them.
NoEntry ==
    [client |-> 0, logID |-> "", severity |-> "", 
     payload |-> [kind |-> "", data |-> <<>>], trace |-> <<>>,
     resource |-> NilResource]

\* The standard logger, before a request writes to it.
NoLines == [count |-> 0, last |-> <<>>]

\* A backend client: whether logging.NewClient made it and for which parent, how
\* often its Close was called and what the last of these calls returned, and the
\* entries its loggers were given.
NoClient ==
    [made |-> FALSE, parent |-> <<>>, closes |-> 0, closeRet |-> NoError,
     entries |-> 0, last |-> NoEntry]

\* The sink after it was given the records of seq.
Given(count, last, seq) ==
    [count |-> count + Len(seq),
     last |-> IF seq = <<>> THEN last ELSE seq[Len(seq)]]

Init ==
    /\ env \in Environments
    /\ metadataOnce = "idle"
    /\ metadataProjectID = <<>>
    /\ metadataProjectIDErr = NoError
    /\ networkCalls = 0
    /\ req = [r \in Requests |-> IdleRequest]
    /\ clients = [r \in Requests |-> NoClient]
    /\ stdlog = [r \in Requests |-> NoLines]

----------------------------------------------------------------------------
(* Actions *)

\* No request is being served.
Quiet == \A q \in Requests : req[q].pc = "idle"

\* os.Setenv / os.Unsetenv, called between requests.
Setenv(k, v) ==
    /\ Quiet
    /\ v # env[k]
    /\ env' = [env EXCEPT ![k] = v]
    /\ UNCHANGED <<metadataOnce, metadataProjectID, metadataProjectIDErr,
                   networkCalls, req, clients, stdlog>>

\* The server hands request r, with X-Cloud-Trace-Context value h, to a handler.
\* A wrapped or manual handler starts by making its Logger; a bare handler is
\* called with a context that has no value under ctxKey.
Arrive(r, kind, h) ==
    /\ req[r].pc = "idle"
    /\ req' = [req EXCEPT ![r] =
                  [IdleRequest EXCEPT !.pc = IF kind = "bare" THEN "handler" ELSE "new",
                                      !.kind = kind,
                                      !.header = h,
                                      !.invoked = IF kind = "bare" THEN 1 ELSE 0]]
    /\ UNCHANGED <<env, metadataOnce, metadataProjectID, metadataProjectIDErr,
                   networkCalls, clients, stdlog>>

\* Requests are served one after another, each in the first slot.
ArriveInTurn(r, kind, h) == Quiet /\ r = 1 /\ Arrive(r, kind, h)

\* The adapter calling the handler with the request's own context when NewWithID
\* returned an error.
Construct_PlainContextOnError(r, si, asked) ==
    \E clientOK \in BOOLEAN :
        LET res == NewWithID(r, si, req[r].header, DefaultLogID, clientOK)
            wrapped == req[r].kind = "wrap"
        IN  /\ req' = [req EXCEPT ![r] =
                          [@ EXCEPT !.pc = "handler",
                                    !.si = si,
                                    !.lg = res.lg,
                                    !.err = res.err,
                                    !.askedMetadata = asked,
                                    !.triedClient = res.tried,
                                    !.ctx = IF wrapped /\ res.err = NoError
                                            THEN WithValue(res.lg)
                                            ELSE NoValue,
                                    !.invoked = IF wrapped THEN @ + 1 ELSE @]]
            /\ clients' = IF res.made
                          THEN [clients EXCEPT ![r] =
                                   [NoClient EXCEPT !.made = TRUE,
                                                    !.parent = res.parent]]
                          ELSE clients

\* The rest of NewWithID once newServiceInfo has returned si, and what follows
\* it in the caller: WrapWithID defers Close, puts the Logger in the context and
\* calls the wrapped handler; a manual handler goes on with its Logger.
Construct(r, si, asked) ==
    \E clientOK \in BOOLEAN :
        LET res == NewWithID(r, si, req[r].header, DefaultLogID, clientOK)
            wrapped == req[r].kind = "wrap"
        IN  /\ req' = [req EXCEPT ![r] =
                          [@ EXCEPT !.pc = "handler",
                                    !.si = si,
                                    !.lg = res.lg,
                                    !.err = res.err,
                                    !.askedMetadata = asked,
                                    !.triedClient = res.tried,
                                    !.ctx = IF wrapped THEN WithValue(res.lg)
                                            ELSE NoValue,
                                    !.invoked = IF wrapped THEN @ + 1 ELSE @]]
            /\ clients' = IF res.made
                          THEN [clients EXCEPT ![r] =
                                   [NoClient EXCEPT !.made = TRUE,
                                                    !.parent = res.parent]]
                          ELSE clients

\* NewWithID asking the metadata server again when the memoized lookup had
\* failed.
NewStart_RetriesAfterError(r) ==
    /\ req[r].pc = "new"
    /\ IF ~NeedsMetadata(env)
       THEN /\ Construct(r, gaeServiceInfo(env), FALSE)
            /\ UNCHANGED metadataOnce
       ELSE CASE metadataOnce = "done" /\ metadataProjectIDErr = NoError ->
                   /\ Construct(r, cloudRunServiceInfo(env,
                                      MetadataResult(metadataProjectID,
                                                     metadataProjectIDErr)), TRUE)
                   /\ UNCHANGED metadataOnce
              [] \/ metadataOnce = "idle"
                 \/ metadataOnce = "done" /\ metadataProjectIDErr # NoError ->
                   /\ metadataOnce' = "running"
                   /\ req' = [req EXCEPT ![r].pc = "fetch", ![r].askedMetadata = TRUE]
                   /\ UNCHANGED clients
              [] metadataOnce = "running" ->
                   /\ req' = [req EXCEPT ![r].pc = "wait", ![r].askedMetadata = TRUE,
                                         ![r].waited = TRUE]
                   /\ UNCHANGED <<metadataOnce, clients>>
    /\ UNCHANGED <<env, metadataProjectID, metadataProjectIDErr, networkCalls,
                   stdlog>>

\* NewWithID up to the metadata lookup: with GOOGLE_CLOUD_PROJECT set it runs to
\* its end; else it enters metadataOnce.Do, where it reads the memoized result,
\* starts the lookup, or waits for the flow that is running it.
NewStart(r) ==
    /\ req[r].pc = "new"
    /\ IF ~NeedsMetadata(env)
       THEN /\ Construct(r, gaeServiceInfo(env), FALSE)
            /\ UNCHANGED metadataOnce
       ELSE CASE metadataOnce = "done" ->
                   /\ Construct(r, cloudRunServiceInfo(env,
                                      MetadataResult(metadataProjectID,
                                                     metadataProjectIDErr)), TRUE)
                   /\ UNCHANGED metadataOnce
              [] metadataOnce = "idle" ->
                   /\ metadataOnce' = "running"
                   /\ req' = [req EXCEPT ![r].pc = "fetch", ![r].askedMetadata = TRUE]
                   /\ UNCHANGED clients
              [] metadataOnce = "running" ->
                   /\ req' = [req EXCEPT ![r].pc = "wait", ![r].askedMetadata = TRUE,
                                         ![r].waited = TRUE]
                   /\ UNCHANGED <<metadataOnce, clients>>
    /\ UNCHANGED <<env, metadataProjectID, metadataProjectIDErr, networkCalls,
                   stdlog>>

\* metadata.ProjectID() returns to the flow that runs the lookup: the result is
\* memoized, metadataOnce is done, and NewWithID runs to its end.
MetadataReturn(r, ok) ==
    /\ req[r].pc = "fetch"
    /\ metadataProjectID' = IF ok THEN MetadataProject ELSE <<>>
    /\ metadataProjectIDErr' = IF ok THEN NoError ELSE ErrMetadata
    /\ metadataOnce' = "done"
    /\ networkCalls' = networkCalls + 1
    /\ Construct(r, cloudRunServiceInfo(env,
                       MetadataResult(metadataProjectID', metadataProjectIDErr')),
                 TRUE)
    /\ UNCHANGED <<env, stdlog>>

\* A flow that leaves metadataOnce.Do while the lookup of another flow is still
\* running, and reads the two variables as they are.
OnceReturn_NoWait(r) ==
    /\ req[r].pc = "wait"
    /\ Construct(r, cloudRunServiceInfo(env,
                       MetadataResult(metadataProjectID, metadataProjectIDErr)),
                 TRUE)
    /\ UNCHANGED <<env, metadataOnce, metadataProjectID, metadataProjectIDErr,
                   networkCalls, stdlog>>

\* metadataOnce.Do returns to a flow that waited for the lookup.
OnceReturn(r) ==
    /\ req[r].pc = "wait"
    /\ metadataOnce = "done"
    /\ Construct(r, cloudRunServiceInfo(env,
                       MetadataResult(metadataProjectID, metadataProjectIDErr)),
                 TRUE)
    /\ UNCHANGED <<env, metadataOnce, metadataProjectID, metadataProjectIDErr,
                   networkCalls, stdlog>>

\* Where a handler's end leads: the adapter's deferred Close, or the end of the
\* request.
AfterHandler(kind) == IF kind = "wrap" THEN "deferred" ELSE "done"

\* The handler serving r made a logging call with effect eff.
Logged(r, eff) ==
    /\ req' = [req EXCEPT ![r] =
                  IF eff.panic
                  THEN [@ EXCEPT !.calls = @ + 1, !.exit = "fault",
                                 !.pc = AfterHandler(req[r].kind)]
                  ELSE [@ EXCEPT !.calls = @ + 1]]
    /\ stdlog' = [stdlog EXCEPT ![r] = Given(@.count, @.last, eff.lines)]
    /\ clients' = [c \in Requests |->
                      LET got == SelectSeq(eff.entries, LAMBDA e : e.client = c)
                          now == Given(clients[c].entries, clients[c].last, got)
                      IN  [clients[c] EXCEPT !.entries = now.count,
                                             !.last = now.last]]
    /\ UNCHANGED <<env, metadataOnce, metadataProjectID, metadataProjectIDErr,
                   networkCalls>>

InHandler(r, kinds) ==
    /\ req[r].pc = "handler"
    /\ req[r].kind \in kinds
    /\ req[r].calls < MaxCalls

\* A wrapped or bare handler calls the package's Logf with its request context.
CallLogf(r, severity, in) ==
    /\ InHandler(r, {"wrap", "bare"})
    /\ Logged(r, Logf(req[r].ctx, severity, in.format, in.v))

\* A wrapped or bare handler calls the package's Log with its request context.
CallLog(r, severity, v) ==
    /\ InHandler(r, {"wrap", "bare"})
    /\ Logged(r, Log(req[r].ctx, severity, v))

\* A manual handler calls Logf on its Logger.
CallLoggerLogf(r, severity, in) ==
    /\ InHandler(r, {"manual"})
    /\ Logged(r, LoggerLogf(req[r].lg, severity, in.format, in.v))

\* A manual handler calls Log on its Logger.
CallLoggerLog(r, severity, v) ==
    /\ InHandler(r, {"manual"})
    /\ Logged(r, LoggerLog(req[r].lg, severity, v))

\* A wrapped or bare handler calls the package's wrapper of Logf named after
\* level with its request context.
CallLeveledf(r, level, in) ==
    /\ InHandler(r, {"wrap", "bare"})
    /\ Logged(r, Leveledf(level, req[r].ctx, in.format, in.v))

\* A wrapped or bare handler calls the package's wrapper of Log named after level
\* with its request context.
CallLeveled(r, level, v) ==
    /\ InHandler(r, {"wrap", "bare"})
    /\ Logged(r, Leveled(level, req[r].ctx, v))

\* A manual handler calls the wrapper of Logf named after level on its Logger.
CallLoggerLeveledf(r, level, in) ==
    /\ InHandler(r, {"manual"})
    /\ Logged(r, LoggerLeveledf(level, req[r].lg, in.format, in.v))

\* A manual handler calls the wrapper of Log named after level on its Logger.
CallLoggerLeveled(r, level, v) ==
    /\ InHandler(r, {"manual"})
    /\ Logged(r, LoggerLeveled(level, req[r].lg, v))

\* (*logging.Client).Close is called on the client of lg and returns result.
ClientClosed(lg, result) ==
    clients' = [clients EXCEPT ![lg.client].closes = @ + 1,
                               ![lg.client].closeRet = result]

\* Close returning nil whatever the client's Close returned.
LoggerClose_SwallowsResult(lg, result, ret) ==
    IF ClosesClient(lg)
    THEN ClientClosed(lg, result) /\ ret = NoError
    ELSE UNCHANGED clients /\ ret = NoError

\* (*Logger).Close: the client's Close and its result when the Logger has a
\* client, nil otherwise.  ret is what Close returns.
LoggerClose(lg, result, ret) ==
    IF ClosesClient(lg)
    THEN ClientClosed(lg, result) /\ ret = result
    ELSE UNCHANGED clients /\ ret = NoError

\* Close leaving the Logger as the zero Logger once the client is closed.
CallLoggerClose_ResetsLogger(r, result) ==
    /\ req[r].pc = "handler"
    /\ req[r].kind = "manual"
    /\ req[r].closes < MaxCloses
    /\ \E ret \in {NoError, ErrClientClose} :
          /\ LoggerClose(req[r].lg, result, ret)
          /\ req' = [req EXCEPT ![r].closes = @ + 1, ![r].closeRet = ret,
                                ![r].lg = EmptyLogger(r)]
    /\ UNCHANGED <<env, metadataOnce, metadataProjectID, metadataProjectIDErr,
                   networkCalls, stdlog>>

\* A manual handler calls Close on its Logger and gets its result.
CallLoggerClose(r, result) ==
    /\ req[r].pc = "handler"
    /\ req[r].kind = "manual"
    /\ req[r].closes < MaxCloses
    /\ \E ret \in {NoError, ErrClientClose} :
          /\ LoggerClose(req[r].lg, result, ret)
          /\ req' = [req EXCEPT ![r].closes = @ + 1, ![r].closeRet = ret]
    /\ UNCHANGED <<env, metadataOnce, metadataProjectID, metadataProjectIDErr,
                   networkCalls, stdlog>>

\* The handler returns.
HandlerReturn(r) ==
    /\ req[r].pc = "handler"
    /\ req' = [req EXCEPT ![r].exit = "return",
                          ![r].pc = AfterHandler(req[r].kind)]
    /\ UNCHANGED <<env, metadataOnce, metadataProjectID, metadataProjectIDErr,
                   networkCalls, clients, stdlog>>

\* A panic that unwinds past the adapter without running its Close.
HandlerPanic_NoDeferredClose(r) ==
    /\ req[r].pc = "handler"
    /\ req' = [req EXCEPT ![r].exit = "panic", ![r].pc = "done"]
    /\ UNCHANGED <<env, metadataOnce, metadataProjectID, metadataProjectIDErr,
                   networkCalls, clients, stdlog>>

\* The handler panics.
HandlerPanic(r) ==
    /\ req[r].pc = "handler"
    /\ req' = [req EXCEPT ![r].exit = "panic",
                          ![r].pc = AfterHandler(req[r].kind)]
    /\ UNCHANGED <<env, metadataOnce, metadataProjectID, metadataProjectIDErr,
                   networkCalls, clients, stdlog>>

\* A Close that clears the handles of the Logger once the client is closed.
DeferredClose_ClearsHandles(r, result) ==
    /\ req[r].pc = "deferred"
    /\ \E ret \in {NoError, ErrClientClose} :
          LoggerClose(req[r].lg, result, ret)
    /\ req' = [req EXCEPT ![r].closes = @ + 1, ![r].pc = "done",
                          ![r].lg = [@ EXCEPT !.client = NilClient,
                                              !.logger = NilLogger],
                          ![r].ctx = [@ EXCEPT !.lg.client = NilClient,
                                               !.lg.logger = NilLogger]]
    /\ UNCHANGED <<env, metadataOnce, metadataProjectID, metadataProjectIDErr,
                   networkCalls, stdlog>>

\* The Close that WrapWithID deferred runs as its function ends, by return or by
\* panic; what Close returns is dropped.
DeferredClose(r, result) ==
    /\ req[r].pc = "deferred"
    /\ \E ret \in {NoError, ErrClientClose} :
          LoggerClose(req[r].lg, result, ret)
    /\ req' = [req EXCEPT ![r].closes = @ + 1, ![r].pc = "done"]
    /\ UNCHANGED <<env, metadataOnce, metadataProjectID, metadataProjectIDErr,
                   networkCalls, stdlog>>

\* Code that kept the context of wrapped request r (a goroutine the handler
\* started) makes a logging call with effect eff after the adapter has returned
\* and its deferred Close has run.
LateLogged(r, eff) ==
    /\ req[r].pc = "done"
    /\ req[r].kind = "wrap"
    /\ req[r].calls < MaxCalls
    /\ req' = [req EXCEPT ![r].calls = @ + 1, ![r].late = @ + 1,
                          ![r].exit = IF eff.panic THEN "fault" ELSE @]
    /\ stdlog' = [stdlog EXCEPT ![r] = Given(@.count, @.last, eff.lines)]
    /\ clients' = [c \in Requests |->
                      LET got == SelectSeq(eff.entries, LAMBDA e : e.client = c)
                          now == Given(clients[c].entries, clients[c].last, got)
                      IN  [clients[c] EXCEPT !.entries = now.count,
                                             !.last = now.last]]
    /\ UNCHANGED <<env, metadataOnce, metadataProjectID, metadataProjectIDErr,
                   networkCalls>>

\* The package's Logf, called with the context of r after the adapter returned.
LateLogf(r, severity, in) ==
    LateLogged(r, Logf(req[r].ctx, severity, in.format, in.v))

\* The package's Log, called with the context of r after the adapter returned.
LateLog(r, severity, v) ==
    LateLogged(r, Log(req[r].ctx, severity, v))

\* The server is done with request r: the request, its context and its Logger
\* are no longer referenced, and the slot serves the next request.
Release(r) ==
    /\ req[r].pc = "done"
    /\ req' = [req EXCEPT ![r] = IdleRequest]
    /\ clients' = [clients EXCEPT ![r] = NoClient]
    /\ stdlog' = [stdlog EXCEPT ![r] = NoLines]
    /\ UNCHANGED <<env, metadataOnce, metadataProjectID, metadataProjectIDErr,
                   networkCalls>>

----------------------------------------------------------------------------
(* Specifications *)

\* Construction: every environment, changed between requests, every header;
\* requests served in turn by handlers that make a Logger and return.
Next ==
    \/ \E k \in EnvVars : \E v \in EnvStates(k) : Setenv(k, v)
    \/ \E r \in Requests, kind \in {"wrap", "manual"}, h \in Headers :
          ArriveInTurn(r, kind, h)
    \/ \E r \in Requests : NewStart(r)
    \/ \E r \in Requests, ok \in BOOLEAN : MetadataReturn(r, ok)
    \/ \E r \in Requests : HandlerReturn(r)
    \/ \E r \in Requests, result \in {NoError, ErrClientClose} :
          DeferredClose(r, result)
    \/ \E r \in Requests : Release(r)

Spec == Init /\ [][Next]_vars

\* The environments a process is deployed with: App Engine with its variables
\* complete or with GAE_VERSION missing, Cloud Run with its variables complete
\* or with K_REVISION missing, and none of the variables.
Deployment(S) == [k \in EnvVars |-> IF k \in S THEN SetTo(SetValue(k)) ELSE Unset]

Deployments ==
    {Deployment({"GOOGLE_CLOUD_PROJECT", "GAE_SERVICE", "GAE_VERSION"}),
     Deployment({"GOOGLE_CLOUD_PROJECT", "GAE_SERVICE"}),
     Deployment({"K_SERVICE", "K_REVISION", "K_CONFIGURATION"}),
     Deployment({"K_SERVICE", "K_CONFIGURATION"}),
     Deployment({})}

\* Serving: a deployed process serves requests in turn; the handlers log, close,
\* return and panic.
InitServe == Init /\ env \in Deployments

NextServe ==
    \/ \E r \in Requests, kind \in Kinds, h \in Headers : ArriveInTurn(r, kind, h)
    \/ \E r \in Requests : NewStart(r)
    \/ \E r \in Requests, ok \in BOOLEAN : MetadataReturn(r, ok)
    \/ \E r \in Requests, severity \in Severities, in \in LogfInputs :
          CallLogf(r, severity, in)
    \/ \E r \in Requests, severity \in Severities, v \in LogValues :
          CallLog(r, severity, v)
    \/ \E r \in Requests, severity \in Severities, in \in LogfInputs :
          CallLoggerLogf(r, severity, in)
    \/ \E r \in Requests, severity \in Severities, v \in LogValues :
          CallLoggerLog(r, severity, v)
    \/ \E r \in Requests, result \in {NoError, ErrClientClose} :
          CallLoggerClose(r, result)
    \/ \E r \in Requests : HandlerReturn(r)
    \/ \E r \in Requests : HandlerPanic(r)
    \/ \E r \in Requests, result \in {NoError, ErrClientClose} :
          DeferredClose(r, result)
    \/ \E r \in Requests : Release(r)

SpecServe == InitServe /\ [][NextServe]_vars

\* Resolution under concurrency: a deployed process serves its requests
\* concurrently, with or without the header; the handlers make their Logger and
\* return.
NextOnce ==
    \/ \E r \in Requests, kind \in {"wrap", "manual"}, h \in {<<>>, <<"t">>} :
          Arrive(r, kind, h)
    \/ \E r \in Requests : NewStart(r)
    \/ \E r \in Requests, ok \in BOOLEAN : MetadataReturn(r, ok)
    \/ \E r \in Requests : OnceReturn(r)
    \/ \E r \in Requests : HandlerReturn(r)
    \/ \E r \in Requests, result \in {NoError, ErrClientClose} :
          DeferredClose(r, result)
    \/ \E r \in Requests : Release(r)

SpecOnce == InitServe /\ [][NextOnce]_vars

\* Serving with the leveled wrappers: a deployed process serves requests in
\* turn, with or without the header; the handlers call the wrappers of every
\* level, call Logf and Log with the severity logging.Default, which no wrapper
\* passes, and close their Logger.
NextLevels ==
    \/ \E r \in Requests, kind \in Kinds, h \in {<<>>, <<"t">>} :
          ArriveInTurn(r, kind, h)
    \/ \E r \in Requests : NewStart(r)
    \/ \E r \in Requests, ok \in BOOLEAN : MetadataReturn(r, ok)
    \/ \E r \in Requests, level \in Severities, in \in LogfInputs :
          CallLeveledf(r, level, in)
    \/ \E r \in Requests, level \in Severities, v \in LogValues :
          CallLeveled(r, level, v)
    \/ \E r \in Requests, level \in Severities, in \in LogfInputs :
          CallLoggerLeveledf(r, level, in)
    \/ \E r \in Requests, level \in Severities, v \in LogValues :
          CallLoggerLeveled(r, level, v)
    \/ \E r \in Requests, in \in LogfInputs : CallLogf(r, "Default", in)
    \/ \E r \in Requests, v \in LogValues : CallLog(r, "Default", v)
    \/ \E r \in Requests, in \in LogfInputs : CallLoggerLogf(r, "Default", in)
    \/ \E r \in Requests, v \in LogValues : CallLoggerLog(r, "Default", v)
    \/ \E r \in Requests, result \in {NoError, ErrClientClose} :
          CallLoggerClose(r, result)
    \/ \E r \in Requests : HandlerReturn(r)
    \/ \E r \in Requests, result \in {NoError, ErrClientClose} :
          DeferredClose(r, result)
    \/ \E r \in Requests : Release(r)

SpecLevels == InitServe /\ [][NextLevels]_vars

\* Serving under concurrency: a process deployed on App Engine serves wrapped
\* requests concurrently, with or without the header; the handlers log with the
\* request context and return.
InitConc ==
    /\ Init
    /\ env = Deployment({"GOOGLE_CLOUD_PROJECT", "GAE_SERVICE", "GAE_VERSION"})

NextConc ==
    \/ \E r \in Requests, h \in {<<>>, <<"t">>, <<"t", "t", "/", "t">>} :
          Arrive(r, "wrap", h)
    \/ \E r \in Requests : NewStart(r)
    \/ \E r \in Requests :
          CallLogf(r, "Info", [format |-> <<"n", "=", "%v">>, v |-> << <<"7">> >>])
    \/ \E r \in Requests : HandlerReturn(r)
    \/ \E r \in Requests, result \in {NoError, ErrClientClose} :
          DeferredClose(r, result)
    \/ \E r \in Requests : Release(r)

SpecConc == InitConc /\ [][NextConc]_vars

\* Serving with calls after Close: a deployed process serves requests in turn,
\* with or without the header; manual handlers log and close their Logger in any
\* order, and the context of a wrapped request is logged to during the handler
\* and after the adapter has closed its Logger.
NextLate ==
    \/ \E r \in Requests, kind \in {"wrap", "manual"}, h \in {<<>>, <<"t">>} :
          ArriveInTurn(r, kind, h)
    \/ \E r \in Requests : NewStart(r)
    \/ \E r \in Requests, ok \in BOOLEAN : MetadataReturn(r, ok)
    \/ \E r \in Requests, severity \in {"Info", "Error"}, in \in LogfInputs :
          CallLogf(r, severity, in)
    \/ \E r \in Requests, severity \in {"Info", "Error"}, in \in LogfInputs :
          CallLoggerLogf(r, severity, in)
    \/ \E r \in Requests, severity \in {"Info", "Error"}, v \in LogValues :
          CallLoggerLog(r, severity, v)
    \/ \E r \in Requests, result \in {NoError, ErrClientClose} :
          CallLoggerClose(r, result)
    \/ \E r \in Requests : HandlerReturn(r)
    \/ \E r \in Requests, result \in {NoError, ErrClientClose} :
          DeferredClose(r, result)
    \/ \E r \in Requests, severity \in {"Info", "Error"}, in \in LogfInputs :
          LateLogf(r, severity, in)
    \/ \E r \in Requests, severity \in {"Info", "Error"}, v \in LogValues :
          LateLog(r, severity, v)
    \/ \E r \in Requests : Release(r)

SpecLate == InitServe /\ [][NextLate]_vars

----------------------------------------------------------------------------
(* Properties *)

\* NewWithID has returned to the flow serving r.
Constructed(r) ==
    /\ req[r].kind \in {"wrap", "manual"}
    /\ req[r].pc \in {"handler", "deferred", "done"}

\* The variable reads as a non-empty string.
IsSet(k) == env[k].set /\ env[k].val # <<>>

\* Identity resolution succeeds in the current environment, with the memoized
\* metadata result.
GAEComplete == IsSet("GAE_SERVICE") /\ IsSet("GAE_VERSION")
CloudRunComplete ==
    IsSet("K_SERVICE") /\ IsSet("K_REVISION") /\ IsSet("K_CONFIGURATION")
MetadataOK == metadataOnce = "done" /\ metadataProjectIDErr = NoError
ResolutionOK ==
    IF IsSet("GOOGLE_CLOUD_PROJECT") THEN GAEComplete
    ELSE MetadataOK /\ CloudRunComplete

\* The Logger has no backend handle, no resource and no trace.
Fallback(lg) ==
    /\ lg.client = NilClient
    /\ lg.logger = NilLogger
    /\ lg.monRes = NilResource
    /\ lg.trace = <<>>

\* C1: NewWithID always returns a non-nil Logger; its error is nil exactly when
\* identity resolution succeeded, the header is not empty and the backend client
\* was made, and the Logger then has a client and a logger handle; with an error
\* the Logger has neither handle, no resource and no trace; no Logger has exactly
\* one of the two handles.
C1_ConstructionOutcome ==
    \A r \in Requests :
        Constructed(r) =>
            /\ req[r].lg.nonnil
            /\ (req[r].err = NoError) <=>
                   (ResolutionOK /\ req[r].header # <<>> /\ clients[r].made)
            /\ req[r].err = NoError =>
                   req[r].lg.client # NilClient /\ req[r].lg.logger # NilLogger
            /\ req[r].err # NoError => Fallback(req[r].lg)
            /\ (req[r].lg.client = NilClient) <=> (req[r].lg.logger = NilLogger)

\* C1 witness: NewWithID returned after logging.NewClient failed.
C1_Witness ==
    \E r \in Requests :
        /\ Constructed(r)
        /\ req[r].triedClient
        /\ ~clients[r].made
        /\ req[r].err = ErrNewClient

\* C2: the Logger of a wrapped request is closed exactly once, after the wrapped
\* handler has ended (by return or by panic) and not before, whatever NewWithID
\* returned.
C2_ClosedOnceAfterHandler ==
    \A r \in Requests :
        req[r].kind = "wrap" =>
            /\ req[r].closes <= 1
            /\ req[r].closes = 1 <=> req[r].pc = "done"
            /\ req[r].closes = 1 => req[r].exit \in {"return", "panic", "fault"}
            /\ req[r].pc \in {"new", "fetch", "wait", "handler"} =>
                   req[r].exit = "none"
            /\ req[r].lg.client # NilClient =>
                   clients[req[r].lg.client].closes = req[r].closes

\* C2 witness: a wrapped handler panicked, NewWithID had returned an error, and
\* the request is over.
C2_Witness ==
    \E r \in Requests :
        /\ req[r].kind = "wrap"
        /\ req[r].pc = "done"
        /\ req[r].exit = "panic"
        /\ req[r].err # NoError
        /\ req[r].closes = 1

\* The Logger the handler serving r logs to, through its context or directly.
HandlerLogger(r) == IF req[r].kind = "wrap" THEN req[r].ctx.lg ELSE req[r].lg

\* The lines the logging calls of the model's handlers print.
PrintedLines ==
    {Sprintf(in.format, in.v) : in \in LogfInputs} \cup {Sprint(v) : v \in LogValues}

\* C3: on a Logger with no backend logger handle, every Logf and Log call, at
\* any severity, ends without a panic, writes one line to the standard logger
\* and gives no entry to a backend logger.
C3_FallbackLogsLocally ==
    \A r \in Requests :
        (Constructed(r) /\ HandlerLogger(r).logger = NilLogger) =>
            /\ req[r].exit # "fault"
            /\ stdlog[r].count = req[r].calls
            /\ req[r].calls > 0 => stdlog[r].last \in PrintedLines
            /\ \A c \in Requests : clients[c].entries = 0

\* C3 witness: a handler made MaxCalls logging calls on a fallback Logger.
C3_Witness ==
    \E r \in Requests :
        /\ Constructed(r)
        /\ HandlerLogger(r).logger = NilLogger
        /\ req[r].calls = MaxCalls
        /\ stdlog[r].count = MaxCalls

\* C4: a package-level logging call with a context that has no Logger ends
\* without a panic, writes its line to the standard logger and gives no entry to
\* a backend logger.
C4_NoLoggerInContext ==
    \A r \in Requests :
        req[r].kind = "bare" =>
            /\ ~req[r].ctx.present
            /\ req[r].exit # "fault"
            /\ stdlog[r].count = req[r].calls
            /\ req[r].calls > 0 => stdlog[r].last \in PrintedLines
            /\ \A c \in Requests : clients[c].entries = 0

\* C4 witness: a handler that was not wrapped has made a logging call.
C4_Witness ==
    \E r \in Requests :
        /\ req[r].kind = "bare"
        /\ req[r].calls > 0
        /\ stdlog[r].count > 0

\* The resource the environment and the memoized project ID resolve to.
ExpectedResource ==
    IF IsSet("GOOGLE_CLOUD_PROJECT")
    THEN [type |-> "gae_app",
          labels |-> [project_id |-> env["GOOGLE_CLOUD_PROJECT"].val,
                      module_id |-> env["GAE_SERVICE"].val,
                      version_id |-> env["GAE_VERSION"].val]]
    ELSE [type |-> "cloud_run_revision",
          labels |-> [project_id |-> metadataProjectID,
                      service_name |-> env["K_SERVICE"].val,
                      revision_name |-> env["K_REVISION"].val,
                      configuration_name |-> env["K_CONFIGURATION"].val]]

\* C5: the wrapped handler is called once per request, with a context whose
\* value under ctxKey is the non-nil Logger NewWithID returned for that request:
\* a fallback Logger when NewWithID returned an error, else one with the
\* resource resolved from the environment.
C5_HandlerGetsItsLogger ==
    \A r \in Requests :
        req[r].kind = "wrap" =>
            /\ req[r].pc \in {"new", "fetch", "wait"} => req[r].invoked = 0
            /\ Constructed(r) =>
                  /\ req[r].invoked = 1
                  /\ req[r].ctx.present
                  /\ req[r].ctx.lg.nonnil
                  /\ req[r].ctx.lg = req[r].lg
                  /\ req[r].ctx.lg.id = r
                  /\ req[r].err # NoError => Fallback(req[r].ctx.lg)
                  /\ req[r].err = NoError =>
                         req[r].ctx.lg.monRes = ExpectedResource

\* C5 witness: a wrapped handler runs with a fallback Logger in its context.
C5_Witness ==
    \E r \in Requests :
        /\ req[r].kind = "wrap"
        /\ req[r].pc = "handler"
        /\ req[r].err # NoError
        /\ req[r].ctx.present

\* The variable is unset or reads as the empty string.
IsEmpty(k) == ~IsSet(k)

GAELabels == {"project_id", "module_id", "version_id"}
CloudRunLabels ==
    {"project_id", "service_name", "revision_name", "configuration_name"}

\* C6: with GOOGLE_CLOUD_PROJECT set and not empty, newServiceInfo returns a
\* gae_app resource or an error, never a cloud_run_revision resource, whatever
\* the K_* variables are, and the metadata lookup is not asked; set to the empty
\* string the variable counts as unset; a gae_app resource has the labels
\* project_id, module_id and version_id and no other, a cloud_run_revision
\* resource project_id, service_name, revision_name and configuration_name.
C6_AppEngineFirst ==
    \A r \in Requests :
        Constructed(r) =>
            LET res == req[r].si.info.resource
            IN  /\ IsSet("GOOGLE_CLOUD_PROJECT") =>
                      /\ \/ req[r].si.err # NoError /\ res = NilResource
                         \/ req[r].si.err = NoError /\ res.type = "gae_app"
                      /\ res.type # "cloud_run_revision"
                      /\ ~req[r].askedMetadata
                /\ env["GOOGLE_CLOUD_PROJECT"] = SetTo(<<>>) =>
                      /\ req[r].askedMetadata
                      /\ res.type # "gae_app"
                      /\ req[r].si.err.kind # "gae-env"
                /\ res.type = "gae_app" => DOMAIN res.labels = GAELabels
                /\ res.type = "cloud_run_revision" =>
                       DOMAIN res.labels = CloudRunLabels
                /\ res.type \in {"", "gae_app", "cloud_run_revision"}

\* C6 witness: the variables of both platforms are set and newServiceInfo
\* returned a gae_app resource.
C6_Witness ==
    \E r \in Requests :
        /\ Constructed(r)
        /\ IsSet("GOOGLE_CLOUD_PROJECT") /\ GAEComplete /\ CloudRunComplete
        /\ req[r].si.info.resource.type = "gae_app"

\* logging.NewClient was not called and failed.
ClientNotFailed(r) == ~(req[r].triedClient /\ ~clients[r].made)

\* C7: with GOOGLE_CLOUD_PROJECT, GAE_SERVICE and GAE_VERSION not empty, a header
\* that is not empty and a backend client that can be made, NewWithID returns no
\* error and a Logger whose resource is gae_app with the labels project_id,
\* module_id, version_id set to the three values.
C7_AppEngineResource ==
    \A r \in Requests :
        (/\ Constructed(r)
         /\ IsSet("GOOGLE_CLOUD_PROJECT") /\ GAEComplete
         /\ req[r].header # <<>>
         /\ ClientNotFailed(r)) =>
            /\ req[r].err = NoError
            /\ clients[r].made
            /\ req[r].lg.monRes =
                   [type |-> "gae_app",
                    labels |-> [project_id |-> env["GOOGLE_CLOUD_PROJECT"].val,
                                module_id |-> env["GAE_SERVICE"].val,
                                version_id |-> env["GAE_VERSION"].val]]

\* C7 witness: a Logger made from complete App Engine variables.
C7_Witness ==
    \E r \in Requests :
        /\ Constructed(r)
        /\ IsSet("GOOGLE_CLOUD_PROJECT") /\ GAEComplete
        /\ req[r].header # <<>>
        /\ req[r].err = NoError
        /\ req[r].lg.monRes.type = "gae_app"

\* s begins with prefix.
StartsWith(s, prefix) ==
    Len(s) >= Len(prefix) /\ SubSeq(s, 1, Len(prefix)) = prefix

\* C8: with GOOGLE_CLOUD_PROJECT unset or empty and the metadata lookup returning
\* project ID m: if one of K_SERVICE, K_REVISION, K_CONFIGURATION is empty,
\* resolution fails with an error that names the three; else it returns a
\* cloud_run_revision resource with project_id m and the three values, and the
\* trace and the backend client of the Logger made from it are of project m.
C8_CloudRunResource ==
    \A r \in Requests :
        (/\ Constructed(r)
         /\ IsEmpty("GOOGLE_CLOUD_PROJECT")
         /\ MetadataOK) =>
            LET m == metadataProjectID
            IN  /\ ~CloudRunComplete =>
                      /\ req[r].si.err # NoError
                      /\ req[r].si.err.names =
                             {"K_SERVICE", "K_REVISION", "K_CONFIGURATION"}
                      /\ req[r].err = req[r].si.err
                /\ CloudRunComplete =>
                      /\ req[r].si.err = NoError
                      /\ req[r].si.info.resource =
                             [type |-> "cloud_run_revision",
                              labels |->
                                  [project_id |-> m,
                                   service_name |-> env["K_SERVICE"].val,
                                   revision_name |-> env["K_REVISION"].val,
                                   configuration_name |->
                                       env["K_CONFIGURATION"].val]]
                      /\ req[r].err = NoError =>
                            /\ req[r].lg.monRes = req[r].si.info.resource
                            /\ StartsWith(req[r].lg.trace,
                                          Str_projects \o m \o Str_traces)
                            /\ clients[r].parent = Str_projects \o m

\* C8 witness: a Logger made on Cloud Run with the looked-up project ID.
C8_Witness ==
    \E r \in Requests :
        /\ Constructed(r)
        /\ IsEmpty("GOOGLE_CLOUD_PROJECT")
        /\ MetadataOK /\ CloudRunComplete
        /\ req[r].err = NoError
        /\ req[r].lg.monRes.type = "cloud_run_revision"
        /\ clients[r].made

\* The positions of "/" in h, and h up to its first "/" (all of h without one).
Slashes(h) == {i \in 1..Len(h) : h[i] = "/"}
BeforeFirstSlash(h) ==
    IF Slashes(h) = {} THEN h
    ELSE SubSeq(h, 1, (CHOOSE i \in Slashes(h) : \A j \in Slashes(h) : i <= j) - 1)

\* The project ID resolution yields.
ResolvedProject ==
    IF IsSet("GOOGLE_CLOUD_PROJECT") THEN env["GOOGLE_CLOUD_PROJECT"].val
    ELSE metadataProjectID

\* C9: the trace of a Logger made for project p from header h is
\* projects/p/traces/c, c being h up to its first "/", or h when it has none.
C9_TraceID ==
    \A r \in Requests :
        (Constructed(r) /\ req[r].err = NoError) =>
            req[r].lg.trace =
                Str_projects \o ResolvedProject \o Str_traces
                    \o BeforeFirstSlash(req[r].header)

\* C9 witness: a Logger made from a header with text on both sides of a "/".
C9_Witness ==
    \E r \in Requests :
        /\ Constructed(r)
        /\ req[r].err = NoError
        /\ Slashes(req[r].header) # {}
        /\ 1 \notin Slashes(req[r].header)
        /\ Len(req[r].header) \notin Slashes(req[r].header)

\* The App Engine variables that read as empty.
MissingGAEVars == {k \in {"GAE_SERVICE", "GAE_VERSION"} : IsEmpty(k)}

\* C10: with GOOGLE_CLOUD_PROJECT not empty and GAE_SERVICE or GAE_VERSION empty,
\* NewWithID returns the resolver's error, which names the missing variables,
\* with or without the header and whatever the K_* variables are; it asks
\* neither the metadata lookup nor logging.NewClient.
C10_AppEngineIncomplete ==
    \A r \in Requests :
        (/\ Constructed(r)
         /\ IsSet("GOOGLE_CLOUD_PROJECT")
         /\ MissingGAEVars # {}) =>
            /\ req[r].err # NoError
            /\ req[r].err = req[r].si.err
            /\ req[r].err.kind = "gae-env"
            /\ MissingGAEVars \subseteq req[r].err.names
            /\ ~req[r].askedMetadata
            /\ ~req[r].triedClient
            /\ ~clients[r].made
            /\ Fallback(req[r].lg)

\* C10 witness: GAE_VERSION is missing, the request has no header, and the error
\* is the resolver's.
C10_Witness ==
    \E r \in Requests :
        /\ Constructed(r)
        /\ IsSet("GOOGLE_CLOUD_PROJECT")
        /\ IsSet("GAE_SERVICE") /\ IsEmpty("GAE_VERSION")
        /\ CloudRunComplete
        /\ req[r].header = <<>>
        /\ req[r].err.kind = "gae-env"

\* C11: with GOOGLE_CLOUD_PROJECT, GAE_SERVICE and GAE_VERSION not empty and a
\* request whose X-Cloud-Trace-Context header is absent or empty, NewWithID
\* returns an error that names the header and a Logger with no backend handle;
\* logging.NewClient is not called, so no client exists that would need a Close.
C11_NoHeader ==
    \A r \in Requests :
        (/\ Constructed(r)
         /\ IsSet("GOOGLE_CLOUD_PROJECT") /\ GAEComplete
         /\ req[r].header = <<>>) =>
            /\ req[r].si.err = NoError
            /\ req[r].err # NoError
            /\ req[r].err.kind = "header"
            /\ "X-Cloud-Trace-Context" \in req[r].err.names
            /\ Fallback(req[r].lg)
            /\ ~req[r].triedClient
            /\ ~clients[r].made
            /\ clients[r] = NoClient

\* C11 witness: the App Engine variables are complete, the request has no
\* header, and NewWithID has returned the header error.
C11_Witness ==
    \E r \in Requests :
        /\ Constructed(r)
        /\ IsSet("GOOGLE_CLOUD_PROJECT") /\ GAEComplete
        /\ req[r].header = <<>>
        /\ req[r].err = ErrNoHeader
        /\ req[r].si.info.resource.type = "gae_app"

\* None of the six variables reads as a non-empty string.
NoVariables == \A k \in EnvVars : IsEmpty(k)

\* C12 with the error required to name variables: with none of the variables
\* set, NewWithID returns, whatever the metadata lookup answered, an error that
\* names variables the package expects, and the Logger takes logging calls
\* without a panic.
C12_ErrorNamesVariables ==
    \A r \in Requests :
        (Constructed(r) /\ NoVariables) =>
            /\ req[r].err # NoError
            /\ req[r].err.names \cap EnvVars # {}
            /\ req[r].exit # "fault"

\* C12: with none of the variables set, NewWithID asks the metadata lookup and
\* returns an error, with or without the header: the error that names K_SERVICE,
\* K_REVISION and K_CONFIGURATION when the lookup returned a project ID, the
\* lookup's own error when it failed.  The Logger returned has no backend handle,
\* and every Logf and Log call on it ends without a panic and prints one line.
C12_NoVariables ==
    \A r \in Requests :
        (Constructed(r) /\ NoVariables) =>
            /\ req[r].err # NoError
            /\ req[r].askedMetadata
            /\ metadataOnce = "done"
            /\ metadataProjectIDErr = NoError =>
                   /\ req[r].err.kind = "cloud-run-env"
                   /\ req[r].err.names =
                          {"K_SERVICE", "K_REVISION", "K_CONFIGURATION"}
            /\ metadataProjectIDErr # NoError =>
                   /\ req[r].err = metadataProjectIDErr
                   /\ req[r].err.kind = "metadata"
            /\ ~req[r].triedClient
            /\ Fallback(req[r].lg)
            /\ req[r].exit # "fault"
            /\ stdlog[r].count = req[r].calls
            /\ \A c \in Requests : clients[c].entries = 0

\* C12 witness: none of the variables is set, the metadata lookup failed, the
\* request has the header, and the handler has logged on the Logger it got.
C12_Witness ==
    \E r \in Requests :
        /\ Constructed(r) /\ NoVariables
        /\ req[r].header # <<>>
        /\ req[r].err = ErrMetadata
        /\ req[r].calls = MaxCalls
        /\ stdlog[r].count = MaxCalls

\* projectIDFromMetadataService has returned to the flow serving r.
LookupReturned(r) == req[r].askedMetadata /\ Constructed(r)

\* The flows inside metadataOnce.Do: the one running the lookup, and the ones
\* waiting for it.
Fetching == {r \in Requests : req[r].pc = "fetch"}
Waiting == {r \in Requests : req[r].pc = "wait"}

\* C13: however the flows that need the metadata project ID interleave,
\* metadata.ProjectID() is called at most once in the process and by one flow at
\* a time; a flow returns from projectIDFromMetadataService only after that call
\* has completed, also when it arrived while the call was running; all flows are
\* returned the pair the call produced, never the variables' zero values in
\* place of it.
C13_MetadataOnce ==
    /\ networkCalls <= 1
    /\ networkCalls = 1 <=> metadataOnce = "done"
    /\ metadataOnce = "running" <=> Cardinality(Fetching) = 1
    /\ Cardinality(Fetching) <= 1
    /\ Waiting # {} => metadataOnce \in {"running", "done"}
    /\ metadataOnce = "done" =>
           \/ metadataProjectID = MetadataProject /\ metadataProjectIDErr = NoError
           \/ metadataProjectID = <<>> /\ metadataProjectIDErr = ErrMetadata
    /\ \A r \in Requests :
           LookupReturned(r) =>
               /\ metadataOnce = "done"
               /\ networkCalls = 1
               /\ (req[r].si.err.kind = "metadata") <=>
                      (metadataProjectIDErr # NoError)
               /\ req[r].si.err.kind = "metadata" =>
                      req[r].si.err = metadataProjectIDErr
               /\ req[r].si.err = NoError =>
                      /\ req[r].si.info.projectID = metadataProjectID
                      /\ req[r].si.info.projectID # <<>>
               /\ \A q \in Requests :
                      LookupReturned(q) => req[q].si = req[r].si

\* C13 witness: two flows were in projectIDFromMetadataService at the same time,
\* one of them waiting, and both have returned with the one project ID.
C13_Witness ==
    \E r, q \in Requests :
        /\ r # q
        /\ LookupReturned(r) /\ LookupReturned(q)
        /\ ~req[r].waited /\ req[q].waited
        /\ networkCalls = 1
        /\ req[r].si.err = NoError
        /\ req[q].si.info.projectID = MetadataProject

\* The memoized result of the metadata lookup, once there.
Memo == <<metadataOnce, metadataProjectID, metadataProjectIDErr, networkCalls>>

\* C14: once the metadata lookup has failed, its error stays memoized and no
\* further call goes to the metadata server; every NewWithID made with
\* GOOGLE_CLOUD_PROJECT empty then returns that error unchanged, whatever the K_*
\* variables are; the environment is read anew by each NewWithID, so that one
\* made with the App Engine variables complete (and the header, and a client)
\* succeeds after the failed lookup.
C14_ErrorMemoized ==
    /\ [](metadataOnce = "done" /\ metadataProjectIDErr # NoError =>
             /\ networkCalls = 1
             /\ \A r \in Requests :
                   Constructed(r) =>
                       /\ IsEmpty("GOOGLE_CLOUD_PROJECT") =>
                              /\ req[r].askedMetadata
                              /\ req[r].si.err = metadataProjectIDErr
                              /\ req[r].err = metadataProjectIDErr
                              /\ req[r].err.kind = "metadata"
                              /\ Fallback(req[r].lg)
                       /\ (/\ IsSet("GOOGLE_CLOUD_PROJECT") /\ GAEComplete
                           /\ req[r].header # <<>>
                           /\ ClientNotFailed(r)) =>
                              /\ req[r].err = NoError
                              /\ req[r].lg.monRes.type = "gae_app")
    /\ [][metadataOnce = "done" => Memo' = Memo]_vars

\* C14 witness: after a failed metadata lookup the App Engine variables were set,
\* and a NewWithID made then returned no error.
C14_Witness ==
    \E r \in Requests :
        /\ metadataOnce = "done" /\ metadataProjectIDErr = ErrMetadata
        /\ networkCalls = 1
        /\ Constructed(r)
        /\ IsSet("GOOGLE_CLOUD_PROJECT") /\ GAEComplete
        /\ req[r].err = NoError
        /\ req[r].lg.monRes.type = "gae_app"

\* C15: each Close on a Logger that has a client calls the client's Close once,
\* and returns what that call returned; Close on a Logger without a client calls
\* no client's Close and returns nil, however often it is called and whatever
\* logging calls come before, between or after.
C15_CloseDelegates ==
    \A r \in Requests :
        Constructed(r) =>
            /\ req[r].lg.client # NilClient =>
                  /\ clients[req[r].lg.client].closes = req[r].closes
                  /\ (req[r].kind = "manual" /\ req[r].closes > 0) =>
                         req[r].closeRet = clients[req[r].lg.client].closeRet
            /\ req[r].lg.client = NilClient =>
                  /\ \A c \in Requests : clients[c].closes = 0
                  /\ \A c \in Requests : clients[c].closeRet = NoError
                  /\ req[r].closeRet = NoError

\* C15 witness: a handler closed its Logger MaxCloses times, with logging calls
\* in between, and the client's last Close failed.
C15_Witness ==
    \E r \in Requests :
        /\ req[r].kind = "manual"
        /\ req[r].lg.client # NilClient
        /\ req[r].closes = MaxCloses
        /\ req[r].calls > 0
        /\ clients[req[r].lg.client].closes = MaxCloses
        /\ req[r].closeRet = ErrClientClose

\* C16: whenever the Close of a Logger's client fails, the code that called
\* Close on the Logger receives that error, be it a handler that closes its own
\* Logger or the adapter of WrapWithID closing the Logger of the request.
C16_CloseErrorSurfaced ==
    \A r \in Requests :
        (/\ Constructed(r)
         /\ req[r].lg.client # NilClient
         /\ req[r].closes > 0
         /\ clients[req[r].lg.client].closeRet # NoError) =>
            req[r].closeRet = clients[req[r].lg.client].closeRet

\* The handler serving r logs to a Logger that has a backend logger handle.
BackendLogger(r) == Constructed(r) /\ HandlerLogger(r).logger # NilLogger

\* The text the format and operands of a Logf call of the handlers stand for.
ExpectedText(in) ==
    IF in.v = <<>> THEN <<"h", "i">> ELSE <<"n", "=", "7">>

\* The entry a call of request r is to submit: the call's severity and payload,
\* the trace of the request's header and the resource of the environment.
ExpectedEntry(r, severity, payload) ==
    [client |-> r, logID |-> "app_log", severity |-> severity,
     payload |-> payload,
     trace |-> Str_projects \o ResolvedProject \o Str_traces
                   \o BeforeFirstSlash(req[r].header),
     resource |-> ExpectedResource]

\* The payloads the calls of the handlers are to submit.
ExpectedPayloads ==
    {[kind |-> "string", data |-> ExpectedText(in)] : in \in LogfInputs}
        \cup LogValues

\* The handler serving r can make a logging call now.
CanLog(r) == req[r].pc = "handler" /\ req[r].calls < MaxCalls

\* C17: on a Logger with a backend logger handle every Logf and Log call gives
\* one entry to the backend logger and no line to the standard logger; the entry
\* has the severity of the call, as payload the formatted string (Logf) or the
\* value itself (Log), and the trace and resource the Logger was made with, which
\* are not empty.
C17_BackendEntry ==
    \A r \in Requests :
        BackendLogger(r) =>
            /\ clients[r].entries = req[r].calls
            /\ stdlog[r].count = 0
            /\ req[r].exit # "fault"
            /\ HandlerLogger(r).trace # <<>>
            /\ HandlerLogger(r).monRes # NilResource
            /\ clients[r].entries > 0 =>
                   /\ clients[r].last.severity \in Severities
                   /\ clients[r].last.payload \in ExpectedPayloads
                   /\ clients[r].last =
                          ExpectedEntry(r, clients[r].last.severity,
                                        clients[r].last.payload)
                   /\ clients[r].last.trace = HandlerLogger(r).trace
                   /\ clients[r].last.resource = HandlerLogger(r).monRes
            /\ \A severity \in Severities :
                   CanLog(r) =>
                   /\ \A in \in LogfInputs :
                          LET e == ExpectedEntry(r, severity,
                                       [kind |-> "string",
                                        data |-> ExpectedText(in)])
                          IN  /\ LoggerLogf(HandlerLogger(r), severity,
                                            in.format, in.v)
                                     = Effect(FALSE, <<>>, <<e>>)
                              /\ req[r].kind = "wrap" =>
                                     Logf(req[r].ctx, severity, in.format, in.v)
                                         = Effect(FALSE, <<>>, <<e>>)
                   /\ \A v \in LogValues :
                          LET e == ExpectedEntry(r, severity, v)
                          IN  /\ LoggerLog(HandlerLogger(r), severity, v)
                                     = Effect(FALSE, <<>>, <<e>>)
                              /\ req[r].kind = "wrap" =>
                                     Log(req[r].ctx, severity, v)
                                         = Effect(FALSE, <<>>, <<e>>)

\* C17 witness: a handler made MaxCalls calls on a Logger with a backend logger
\* handle, the last of them a Log of a struct value at severity Emergency.
C17_Witness ==
    \E r \in Requests :
        /\ BackendLogger(r)
        /\ req[r].calls = MaxCalls
        /\ clients[r].entries = MaxCalls
        /\ clients[r].last.severity = "Emergency"
        /\ clients[r].last.payload.kind = "struct"
        /\ stdlog[r].count = 0

\* The trace NewWithID derives for request r in the current environment.
ExpectedTrace(r) ==
    Str_projects \o ResolvedProject \o Str_traces
        \o BeforeFirstSlash(req[r].header)

\* C18: the resource and the trace of a Logger are those NewWithID gave it, and
\* no Logf, Log, leveled wrapper or Close call on the Logger, and no other step
\* of the request, changes them.
C18_ResourceAndTraceFixed ==
    /\ [](\A r \in Requests :
             Constructed(r) =>
                 /\ req[r].err = NoError =>
                        /\ req[r].lg.monRes = ExpectedResource
                        /\ req[r].lg.trace = ExpectedTrace(r)
                 /\ req[r].err # NoError =>
                        /\ req[r].lg.monRes = NilResource
                        /\ req[r].lg.trace = <<>>
                 /\ req[r].kind = "wrap" => req[r].ctx.lg = req[r].lg)
    /\ [][\A r \in Requests :
             (Constructed(r) /\ req'[r].pc # "idle") =>
                 /\ req'[r].lg.monRes = req[r].lg.monRes
                 /\ req'[r].lg.trace = req[r].lg.trace
                 /\ req'[r].ctx.lg.monRes = req[r].ctx.lg.monRes
                 /\ req'[r].ctx.lg.trace = req[r].ctx.lg.trace]_vars

\* C18 witness: a handler has logged MaxCalls times on its Logger, last through
\* the Alert wrapper, and closed it MaxCloses times; the Logger has its trace.
C18_Witness ==
    \E r \in Requests :
        /\ req[r].kind = "manual"
        /\ req[r].err = NoError
        /\ req[r].calls = MaxCalls
        /\ req[r].closes = MaxCloses
        /\ clients[r].last.severity = "Alert"
        /\ req[r].lg.trace = ExpectedTrace(r)
        /\ req[r].lg.monRes.type = "gae_app"

\* What a call with this severity and payload, printed as text, is to do on the
\* Logger the handler serving r logs to: one entry for the backend logger when
\* the Logger has one, else one line for the standard logger.
ExpectedEffect(r, severity, payload, text) ==
    IF HandlerLogger(r).logger # NilLogger
    THEN Effect(FALSE, <<>>, <<ExpectedEntry(r, severity, payload)>>)
    ELSE Effect(FALSE, <<text>>, <<>>)

\* The text log.Print prints for a value of the handlers' Log calls.
ExpectedPrint(v) ==
    IF v.kind = "string" THEN <<"h", "i">> ELSE <<"{", "K", "C", "}">>

\* C19: for each of the eight levels, the method and the package function named
\* after the level, with and without f, do what Logf and Log do when called with
\* that level as severity and the same other arguments: the same entry or line
\* to the same sink; two different levels give entries of different severity.
C19_LeveledWrappers ==
    \A r \in Requests, level \in Severities :
        /\ \A in \in LogfInputs :
              LET text == ExpectedText(in)
                  want == ExpectedEffect(r, level,
                                         [kind |-> "string", data |-> text], text)
              IN  /\ Constructed(r) =>
                        /\ LoggerLeveledf(level, HandlerLogger(r), in.format, in.v)
                               = LoggerLogf(HandlerLogger(r), level, in.format, in.v)
                        /\ LoggerLeveledf(level, HandlerLogger(r), in.format, in.v)
                               = want
                  /\ req[r].kind \in {"wrap", "bare"} /\ req[r].pc = "handler" =>
                        /\ Leveledf(level, req[r].ctx, in.format, in.v)
                               = Logf(req[r].ctx, level, in.format, in.v)
                        /\ Leveledf(level, req[r].ctx, in.format, in.v) = want
        /\ \A v \in LogValues :
              LET want == ExpectedEffect(r, level, v, ExpectedPrint(v))
              IN  /\ Constructed(r) =>
                        /\ LoggerLeveled(level, HandlerLogger(r), v)
                               = LoggerLog(HandlerLogger(r), level, v)
                        /\ LoggerLeveled(level, HandlerLogger(r), v) = want
                  /\ req[r].kind \in {"wrap", "bare"} /\ req[r].pc = "handler" =>
                        /\ Leveled(level, req[r].ctx, v)
                               = Log(req[r].ctx, level, v)
                        /\ Leveled(level, req[r].ctx, v) = want
        /\ \A other \in Severities \ {level}, v \in LogValues :
              BackendLogger(r) =>
                  /\ LoggerLeveled(level, HandlerLogger(r), v)
                         # LoggerLeveled(other, HandlerLogger(r), v)
                  /\ LoggerLeveledf(level, HandlerLogger(r), <<"h", "i">>, <<>>)
                         # LoggerLeveledf(other, HandlerLogger(r), <<"h", "i">>, <<>>)
                  /\ req[r].kind = "wrap" =>
                        /\ Leveled(level, req[r].ctx, v)
                               # Leveled(other, req[r].ctx, v)
                        /\ Leveledf(level, req[r].ctx, <<"h", "i">>, <<>>)
                               # Leveledf(other, req[r].ctx, <<"h", "i">>, <<>>)

\* C19 witness: a wrapped handler logged a struct value through the package's
\* Notice, and the backend logger of its request got the entry.
C19_Witness ==
    \E r \in Requests :
        /\ req[r].kind = "wrap"
        /\ BackendLogger(r)
        /\ req[r].calls > 0
        /\ clients[r].entries = req[r].calls
        /\ clients[r].last.severity = "Notice"
        /\ clients[r].last.payload.kind = "struct"

\* The request is being served: its handler has not ended yet.
InProgress(r) == req[r].pc \in {"new", "fetch", "wait", "handler"}

\* C20: however concurrently served wrapped requests interleave, the Logger in a
\* request's context is that request's own, with a client no other request has;
\* the entries its client gets are those of its own calls and carry the trace of
\* its own header; and the Close of one request's Logger, run when its handler
\* has ended, leaves the Logger, the client and the sinks of every request still
\* in progress as they are.
C20_RequestsIsolated ==
    /\ [](\A r \in Requests :
             (req[r].kind = "wrap" /\ Constructed(r)) =>
                 /\ req[r].ctx.lg.id = r
                 /\ req[r].ctx.lg.client \in {NilClient, r}
                 /\ req[r].ctx.lg.logger.client = req[r].ctx.lg.client
                 /\ \A q \in Requests \ {r} :
                        (/\ req[q].kind = "wrap" /\ Constructed(q)
                         /\ req[r].ctx.lg.client # NilClient) =>
                            req[q].ctx.lg.client # req[r].ctx.lg.client
                 /\ req[r].err = NoError =>
                        /\ clients[r].made
                        /\ req[r].ctx.lg.trace = ExpectedTrace(r)
                        /\ clients[r].entries = req[r].calls
                        /\ clients[r].closes = req[r].closes
                        /\ clients[r].entries > 0 =>
                               /\ clients[r].last.client = r
                               /\ clients[r].last.trace = ExpectedTrace(r)
                 /\ req[r].err # NoError =>
                        /\ clients[r] = NoClient
                        /\ stdlog[r].count = req[r].calls)
    /\ [][\A q \in Requests :
             (req[q].pc = "deferred" /\ req'[q].pc = "done") =>
                 \A r \in Requests \ {q} :
                     InProgress(r) =>
                         /\ req'[r] = req[r]
                         /\ clients'[r] = clients[r]
                         /\ stdlog'[r] = stdlog[r]]_vars

\* C20 witness: two requests with different headers were served at the same
\* time and both logged; the Logger of one was closed, the handler of the other
\* is still running with its client not closed.
C20_Witness ==
    \E r, q \in Requests :
        /\ r # q
        /\ req[r].kind = "wrap" /\ req[q].kind = "wrap"
        /\ req[r].err = NoError /\ req[q].err = NoError
        /\ req[r].header # req[q].header
        /\ req[r].ctx.lg.trace # req[q].ctx.lg.trace
        /\ req[q].pc = "done" /\ clients[q].closes = 1 /\ clients[q].entries > 0
        /\ req[r].pc = "handler" /\ clients[r].closes = 0
        /\ clients[r].entries = MaxCalls

\* C21: Close leaves the Logger as it is: a Logger with a client and a logger
\* handle has both after any number of Close calls.  A Logf or Log call made
\* after Close, by the handler that closed its Logger or through the context of
\* a wrapped request once the adapter has returned, gives its entry to the
\* backend logger handle and no line to the standard logger; and every further
\* Close calls the client's Close again.
C21_CloseKeepsMode ==
    /\ [](\A r \in Requests :
             Constructed(r) =>
                 /\ req[r].late <= req[r].calls
                 /\ req[r].late > 0 => req[r].closes = 1
                 /\ req[r].err = NoError =>
                        /\ req[r].lg.client # NilClient
                        /\ req[r].lg.logger # NilLogger
                        /\ HandlerLogger(r) = req[r].lg
                        /\ clients[r].closes = req[r].closes
                        /\ clients[r].entries = req[r].calls
                        /\ stdlog[r].count = 0)
    /\ [][\A r \in Requests :
             (Constructed(r) /\ req'[r].pc # "idle") =>
                 /\ req'[r].closes = req[r].closes + 1 =>
                        /\ req'[r].lg = req[r].lg
                        /\ req'[r].ctx = req[r].ctx
                        /\ req[r].lg.client # NilClient =>
                               clients'[r].closes = clients[r].closes + 1
                 /\ (/\ req[r].closes > 0
                     /\ req[r].lg.logger # NilLogger
                     /\ req'[r].calls = req[r].calls + 1) =>
                        /\ clients'[r].entries = clients[r].entries + 1
                        /\ clients'[r].last.trace = req[r].lg.trace
                        /\ clients'[r].last.resource = req[r].lg.monRes
                        /\ stdlog' = stdlog]_vars

\* C21 witness: the adapter has closed the Logger of a wrapped request, and a
\* call made with the request's context afterwards gave its entry to the
\* backend logger of the closed client.
C21_Witness ==
    \E r \in Requests :
        /\ req[r].kind = "wrap"
        /\ req[r].pc = "done"
        /\ req[r].err = NoError
        /\ req[r].closes = 1 /\ clients[r].closes = 1
        /\ req[r].late > 0
        /\ clients[r].entries = req[r].calls
        /\ stdlog[r].count = 0

\* C22: NewWithID fails on the header only when its value is empty; with
\* identity resolved and a client made, every other value gives a Logger with
\* both handles, also a value that begins with "/", and the trace of that Logger
\* is projects/p/traces/ with nothing after it.
C22_EmptyTraceComponent ==
    \A r \in Requests :
        Constructed(r) =>
            /\ (req[r].err.kind = "header") <=>
                   (req[r].si.err = NoError /\ req[r].header = <<>>)
            /\ (/\ req[r].si.err = NoError
                /\ req[r].header # <<>>
                /\ ClientNotFailed(r)) =>
                   /\ req[r].err = NoError
                   /\ req[r].lg.client # NilClient
                   /\ req[r].lg.logger # NilLogger
                   /\ req[r].header[1] = "/" =>
                          req[r].lg.trace =
                              Str_projects \o ResolvedProject \o Str_traces

\* C22 witness: NewWithID returned a Logger with both handles for a header that
\* begins with "/" and goes on, and its trace ends with "traces/".
C22_Witness ==
    \E r \in Requests :
        /\ Constructed(r)
        /\ req[r].header = <<"/", "t">>
        /\ req[r].err = NoError
        /\ req[r].lg.logger # NilLogger
        /\ req[r].lg.trace = Str_projects \o ResolvedProject \o Str_traces

====
